---- MODULE Spec2Model ----
(***************************************************************************)
(* A model of the VOC sensor analysis tool: the channel loader and the     *)
(* synchronizer/padder of src/src/data_loader.py, the script functions of  *)
(* src/visualize_summary_signal.py, the application controller of          *)
(* src/main_interactive_analyzer.py and the interactive analyzer of        *)
(* src/src/interactive_plotter.py.                                         *)
(*                                                                         *)
(* Conventions.  Python indices are 0-based and TLA+ sequences 1-based:    *)
(* a Python index i is position i+1 of the sequence.  Timestamps are exact *)
(* rationals <<n, d>> (d > 0, lowest terms); the floating-point rounding   *)
(* of the timestamps is not modelled.  A summary (luminance) value is the  *)
(* float64 numpy computes, kept as the integer value * 2^56 in limbs of 15 *)
(* bits, least significant first; samples are integers below 2^11.  A      *)
(* channel file is                                                         *)
(* either absent or a well-formed CSV with at least one data row (the      *)
(* input format of the tool); every row is <<timestamp, v_1, ..., v_k>>.   *)
(***************************************************************************)
EXTENDS Integers, Sequences, FiniteSets, TLC

\* ------------------------------------------------------------------ bounds
\* The most data rows of a channel file.
MaxLen == 3
\* Sensor rows of the array (num_rows) and sensor columns per row.
NumRows == 2
NumCols == 2

\* ------------------------------------------------------- program constants
\* np.mean(positive_diffs[-100:])
AvgWindow == 100
\* The literals of 0.299 * r + 0.587 * g + 0.114 * b as float64, times 2^56:
\* 0.299 is 5386305154335113 * 2^-54, 0.587 is 2643612981266481 * 2^-52 and
\* 0.114 is 8214565720323785 * 2^-56.
WeightR == <<1572, 11010, 11534, 612, 0, 0>>
WeightG == <<784, 5505, 5767, 1202, 0, 0>>
WeightB == <<30409, 16252, 15466, 233, 0, 0>>
\* pad_signals_to_time(..., num_padding_points=50)
NumPaddingPoints == 50

\* ------------------------------------------------------------- rationals
RECURSIVE GCD(_, _)
GCD(a, b) == IF b = 0 THEN a ELSE GCD(b, a % b)

Abs(x) == IF x < 0 THEN 0 - x ELSE x

\* n/d in lowest terms, d > 0.
Rat(n, d) == LET g == GCD(Abs(n), d) IN <<n \div g, d \div g>>

RInt(n) == <<n, 1>>
RLess(a, b) == a[1] * b[2] < b[1] * a[2]
RLeq(a, b) == a[1] * b[2] <= b[1] * a[2]
RAdd(a, b) == Rat(a[1] * b[2] + b[1] * a[2], a[2] * b[2])
RSub(a, b) == Rat(a[1] * b[2] - b[1] * a[2], a[2] * b[2])
RMulInt(k, a) == Rat(k * a[1], a[2])
\* a / b for b > 0
RDiv(a, b) == Rat(a[1] * b[2], a[2] * b[1])
\* np.ceil, as an integer
RCeil(a) == 0 - ((0 - a[1]) \div a[2])

\* ---------------------------------------------------------------- float64
\* A non-negative float64 x is the integer x * 2^56, in Limbs limbs of 15
\* bits.  The values of the model are 0 or at least 2^-4 and below 2^11, so
\* that integer is exact and has at most 67 bits.
Limb == 2^15
Limbs == 1..6

\* The limbs brought back below 2^15, carries moved up.
RECURSIVE Carry(_, _, _)
CarryOn(a, i, sum) == <<sum % Limb>> \o Carry(a, i + 1, sum \div Limb)
Carry(a, i, carry) == IF i > Len(a) THEN <<>> ELSE CarryOn(a, i, a[i] + carry)

BigZero == [i \in Limbs |-> 0]
BigOne == [i \in Limbs |-> IF i = 1 THEN 1 ELSE 0]
BigAdd(a, b) == Carry([i \in Limbs |-> a[i] + b[i]], 1, 0)
\* a * x for an integer 0 <= x < 2^16
BigTimes(a, x) == Carry([i \in Limbs |-> a[i] * x], 1, 0)
\* a <= b, from the most significant limb down
RECURSIVE BigLeqFrom(_, _, _)
BigLeqFrom(a, b, i) ==
    IF i = 0 THEN TRUE
    ELSE IF a[i] # b[i] THEN a[i] < b[i]
    ELSE BigLeqFrom(a, b, i - 1)
BigLeq(a, b) == BigLeqFrom(a, b, Len(a))

\* The number of bits of a: those of its highest limb that is not 0, and 15
\* for every limb below.
RECURSIVE TopLimb(_, _)
TopLimb(a, i) == IF i = 0 \/ a[i] # 0 THEN i ELSE TopLimb(a, i - 1)
BitsAt(a, top) ==
    IF top = 0 THEN 0 ELSE 15 * (top - 1) + Cardinality({j \in 0..14 : 2^j <= a[top]})
BitLength(a) == BitsAt(a, TopLimb(a, Len(a)))

\* a >> s and a << s for 0 <= s < 15
ShiftRight(a, s) ==
    [i \in Limbs |-> (a[i] \div 2^s)
                        + (IF i < Len(a) THEN (a[i + 1] % 2^s) * 2^(15 - s) ELSE 0)]
ShiftLeft(a, s) == Carry([i \in Limbs |-> a[i] * 2^s], 1, 0)

\* The float64 nearest to the exact result a, ties to even: a result of
\* more than 53 bits loses the s bits below its 53 leading ones, q being the
\* bits kept and r the bits lost.
RoundQuotient(q, r, half, s) ==
    ShiftLeft(IF r > half \/ (r = half /\ q[1] % 2 = 1) THEN BigAdd(q, BigOne) ELSE q, s)
RoundAt(a, s) ==
    IF s <= 0 THEN a ELSE RoundQuotient(ShiftRight(a, s), a[1] % 2^s, 2^(s - 1), s)
Round53(a) == RoundAt(a, BitLength(a) - 53)

\* float64 +, and float64 * of a weight and a sample (an integer)
FAdd(a, b) == Round53(BigAdd(a, b))
FTimes(w, x) == Round53(BigTimes(w, x))
\* The float64 of an integer sample x: x * 2^56, 2^56 being 2^11 in limb 4
FromInt(x) == Carry([i \in Limbs |-> IF i = 4 THEN x * 2^11 ELSE 0], 1, 0)

\* ------------------------------------------------------------- sequences
\* s[1] + ... + s[k]
RECURSIVE SumTo(_, _)
SumTo(s, k) == IF k = 0 THEN 0 ELSE s[k] + SumTo(s, k - 1)
SumSeq(s) == SumTo(s, Len(s))

\* s[-k:]
LastK(s, k) == IF Len(s) <= k THEN s ELSE SubSeq(s, Len(s) - k + 1, Len(s))

\* s[:k]
FirstK(s, k) == SubSeq(s, 1, IF k < Len(s) THEN k ELSE Len(s))

\* Variant: block i of as many columns as each sensor row has, s[i*c:(i+1)*c].
ContiguousSlice(s, i, n) ==
    SubSeq(s, i * (Len(s) \div n) + 1, (i + 1) * (Len(s) \div n))

\* s[i::n] for a Python start index i >= 0 and a step n >= 1
RECURSIVE StridedSlice(_, _, _)
StridedSlice(s, i, n) ==
    IF i >= Len(s) THEN <<>> ELSE <<s[i + 1]>> \o StridedSlice(s, i + n, n)

SelectPositive(s) == SelectSeq(s, LAMBDA x : x > 0)

MaxOfSet(S) == CHOOSE m \in S : \A x \in S : x <= m
MinOfSet(S) == CHOOSE m \in S : \A x \in S : m <= x

\* ---------------------------------------------------------------- inputs
Channels == {"red", "green", "blue"}
ChannelOrder == <<"red", "green", "blue">>

\* The sampling of a channel file: the step between consecutive timestamps.
Profiles == {"unit", "mixed", "stall", "zero"}

DeltaOf(p, k) ==
    CASE p = "unit" -> 1
      [] p = "mixed" -> IF k % 2 = 1 THEN 2 ELSE 1
      [] p = "stall" -> IF k % 2 = 1 THEN 0 ELSE 2
      [] p = "coarse" -> 100   \* for config.EXPERIMENTS, whose cycles last ~300 s
      [] OTHER -> 0

TimesOf(p, n) == [k \in 1..n |-> SumSeq([j \in 1..(k - 1) |-> DeltaOf(p, j)])]

\* The sample values of a file: a ramp, in which every (time, column) of
\* every channel has its own value, or the same value everywhere, 100 or 104.
Patterns == {"ramp", "flat", "even"}

FileColumns == NumRows * NumCols

ChannelBase(ch) == CASE ch = "red" -> 100 [] ch = "green" -> 300 [] OTHER -> 500

SampleOf(ch, pat, t, c) ==
    CASE pat = "flat" -> 100
      [] pat = "even" -> 104
      [] OTHER -> ChannelBase(ch) + (t - 1) * FileColumns + c

CsvRows(ch, p, pat, n) ==
    LET times == TimesOf(p, n)
    IN  [t \in 1..n |-> <<times[t]>> \o [c \in 1..FileColumns |-> SampleOf(ch, pat, t, c)]]

MissingFile == [exists |-> FALSE, rows |-> <<>>]
CsvFile(ch, p, pat, n) == [exists |-> TRUE, rows |-> CsvRows(ch, p, pat, n)]

\* Every content a channel file can have in the model.
FileChoices(ch, pat, profiles, lens) ==
    {MissingFile} \cup {CsvFile(ch, p, pat, n) : p \in profiles, n \in lens}

\* ------------------------------------------------------------- np.loadtxt
\* A file of one data row loads as a 1-D array, any other as a 2-D array.
LoadTxt(file) ==
    IF Len(file.rows) = 1
    THEN [ndim |-> 1, data |-> <<>>, vec |-> file.rows[1]]
    ELSE [ndim |-> 2, data |-> file.rows, vec |-> <<>>]

NoneResult == [status |-> "none", time |-> <<>>, data |-> <<>>]
RaisedResult(e) == [status |-> e, time |-> <<>>, data |-> <<>>]

\* raw_data[:, 0], raw_data[:, 1:] and the strided deinterleave of a 2-D array
Reshape2D(rows, num_rows) ==
    LET time_vector == [t \in 1..Len(rows) |-> rows[t][1]]
        sensor_data == [t \in 1..Len(rows) |-> Tail(rows[t])]
    IN  [status |-> "ok",
         time |-> time_vector,
         data |-> [i \in 1..num_rows |->
                     [t \in 1..Len(rows) |-> StridedSlice(sensor_data[t], i - 1, num_rows)]]]

\* SensorData._load_and_reshape
LoadAndReshape(file, num_rows) ==
    IF ~file.exists THEN NoneResult
    ELSE LET raw == LoadTxt(file)
             raw_data == IF raw.ndim = 1 THEN <<raw.vec>> ELSE raw.data
         IN  Reshape2D(raw_data, num_rows)

\* load_and_reshape_data of visualize_summary_signal.py: no single-row case,
\* so raw_data[:, 0] on a 1-D array raises IndexError.
LoadAndReshapeData(file, num_rows) ==
    IF ~file.exists THEN NoneResult
    ELSE LET raw == LoadTxt(file)
         IN  IF raw.ndim = 1 THEN RaisedResult("IndexError")
             ELSE Reshape2D(raw.data, num_rows)

\* ------------------------------------------------------ SensorData padding
\* Variant: the padding repeats the first sample, row[0, :].
HoldFirst(row, num_points_to_add) ==
    row \o [k \in 1..num_points_to_add |-> row[1]]

\* np.vstack([row, np.tile(row[-1, :], (num_points_to_add, 1))])
HoldLast(row, num_points_to_add) ==
    row \o [k \in 1..num_points_to_add |-> row[Len(row)]]

\* Variant: one padding row too few.
PadToTimeShort(time_vec, data_rows, target_time_vec) ==
    LET target_len == Len(target_time_vec)
        current_len == Len(time_vec)
    IN  IF current_len >= target_len
        THEN [i \in 1..Len(data_rows) |-> FirstK(data_rows[i], target_len)]
        ELSE [i \in 1..Len(data_rows) |-> HoldLast(data_rows[i], target_len - current_len - 1)]

\* SensorData._pad_to_time
PadToTime(time_vec, data_rows, target_time_vec) ==
    LET target_len == Len(target_time_vec)
        current_len == Len(time_vec)
    IN  IF current_len >= target_len
        THEN [i \in 1..Len(data_rows) |-> FirstK(data_rows[i], target_len)]
        ELSE [i \in 1..Len(data_rows) |-> HoldLast(data_rows[i], target_len - current_len)]

\* np.diff
Diff(t) == [k \in 1..(Len(t) - 1) |-> t[k + 1] - t[k]]

\* [t for t in all_times if t is not None and len(t) > 1]
ValidTimes(all_times) == SelectSeq(all_times, LAMBDA t : Len(t) > 1)

\* Variant: the first valid time vector, whatever its length.
FirstValidTimeVector(valid_times) == valid_times[1]

\* valid_times[np.argmax([len(t) for t in valid_times])]: the first longest
BaseTimeVector(valid_times) ==
    LET longest == MaxOfSet({Len(valid_times[k]) : k \in 1..Len(valid_times)})
        longest_time_idx == MinOfSet({k \in 1..Len(valid_times) : Len(valid_times[k]) = longest})
    IN  valid_times[longest_time_idx]

\* avg_step = 0.1, the failsafe default
DefaultStep == Rat(1, 10)

\* Variant: a single positive step is not averaged, the default is used.
AvgStepOfTwo(base_time_vector) ==
    LET positive_diffs == SelectPositive(Diff(base_time_vector))
        window == LastK(positive_diffs, AvgWindow)
    IN  IF Len(positive_diffs) > 1
        THEN [step |-> Rat(SumSeq(window), Len(window)), default |-> FALSE]
        ELSE [step |-> DefaultStep, default |-> TRUE]

\* Steps 1-3 of the extension: the average of the last 100 positive steps,
\* or the default when there is none.
AvgStep(base_time_vector) ==
    LET positive_diffs == SelectPositive(Diff(base_time_vector))
        window == LastK(positive_diffs, AvgWindow)
    IN  IF Len(positive_diffs) > 0
        THEN [step |-> Rat(SumSeq(window), Len(window)), default |-> FALSE]
        ELSE [step |-> DefaultStep, default |-> TRUE]

\* Variant: as many steps as the gap needs, and none after.
NumStepsToAddExact(last, required_end_time, avg_step) ==
    RCeil(RDiv(RInt(required_end_time - last), avg_step))

\* Variant: one step less than the gap needs.
NumStepsToAddShort(last, required_end_time, avg_step) ==
    RCeil(RDiv(RInt(required_end_time - last), avg_step)) - 1

\* int(np.ceil((required_end_time - base_time_vector[-1]) / avg_step)) + 1
NumStepsToAdd(last, required_end_time, avg_step) ==
    RCeil(RDiv(RInt(required_end_time - last), avg_step)) + 1

\* np.arange(1, num_steps_to_add + 1) * avg_step + base_time_vector[-1]
ExtraTime(last, num_steps_to_add, avg_step) ==
    [k \in 1..num_steps_to_add |-> RAdd(RMulInt(k, avg_step), RInt(last))]

\* The time vector of the dataset: the base as it is, or extended.
ExtendTimeVector(base_time_vector, required_end_time) ==
    LET last == base_time_vector[Len(base_time_vector)]
        base == [k \in 1..Len(base_time_vector) |-> RInt(base_time_vector[k])]
        avg == AvgStep(base_time_vector)
    IN  IF last < required_end_time
        THEN [time_vector |-> base \o ExtraTime(last, NumStepsToAdd(last, required_end_time, avg.step), avg.step),
              extended |-> TRUE, avg_step |-> avg.step, default |-> avg.default]
        ELSE [time_vector |-> base, extended |-> FALSE, avg_step |-> <<0, 1>>, default |-> FALSE]

\* Variant: the weights of red and blue exchanged.
LuminanceSwapped(r, g, b) ==
    <<>> \o [t \in 1..Len(r) |->
        <<>> \o [c \in 1..Len(r[t]) |->
            FAdd(FAdd(FTimes(WeightB, r[t][c]), FTimes(WeightG, g[t][c])),
                 FTimes(WeightR, b[t][c]))]]

\* 0.299 * r + 0.587 * g + 0.114 * b of three matrices, in float64; the
\* result is a new array (<<>> \o makes it a sequence of its own values).
Luminance(r, g, b) ==
    <<>> \o [t \in 1..Len(r) |->
        <<>> \o [c \in 1..Len(r[t]) |->
            FAdd(FAdd(FTimes(WeightR, r[t][c]), FTimes(WeightG, g[t][c])),
                 FTimes(WeightB, b[t][c]))]]

\* numpy adds matrices of one shape (a matrix of a single row, which would
\* broadcast, never meets a longer one here).
SameShape(r, g, b) ==
    /\ Len(r) = Len(g) /\ Len(g) = Len(b)
    /\ \A t \in 1..Len(r) : Len(r[t]) = Len(g[t]) /\ Len(g[t]) = Len(b[t])

\* SensorData._calculate_summary_signal and calculate_summary_signal: zip
\* stops at the shortest list; a shape mismatch raises ValueError.
CalculateSummarySignal(red_rows, green_rows, blue_rows) ==
    LET n == MinOfSet({Len(red_rows), Len(green_rows), Len(blue_rows)})
    IN  IF \A i \in 1..n : SameShape(red_rows[i], green_rows[i], blue_rows[i])
        THEN [status |-> "ok",
              rows |-> [i \in 1..n |-> Luminance(red_rows[i], green_rows[i], blue_rows[i])]]
        ELSE [status |-> "ValueError", rows |-> <<>>]

NoData ==
    [status |-> "none", time_vector |-> <<>>, red_data |-> <<>>, green_data |-> <<>>,
     blue_data |-> <<>>, summary_data |-> <<>>, extended |-> FALSE,
     avg_step |-> <<0, 1>>, default |-> FALSE]

\* The "Error: <path> not found." lines of the three loads.
NotFoundReports(files) == {<<"not found", ch>> : ch \in {c \in Channels : ~files[c].exists}}

\* SensorData.__init__ and _load_and_process: the object's fields after a
\* successful construction, or the exception raised.
LoadAndProcess(files, exposure_intervals, num_rows) ==
    LET r == LoadAndReshape(files["red"], num_rows)
        g == LoadAndReshape(files["green"], num_rows)
        b == LoadAndReshape(files["blue"], num_rows)
        required_end_time == exposure_intervals[Len(exposure_intervals)]
        all_times == SelectSeq(<<r, g, b>>, LAMBDA x : x.status = "ok")
        valid_times == ValidTimes([k \in 1..Len(all_times) |-> all_times[k].time])
    IN  IF \E x \in {r, g, b} : x.status # "ok"
        THEN [NoData EXCEPT !.status = "IOError"]
        ELSE IF valid_times = <<>>
        THEN [NoData EXCEPT !.status = "ValueError"]
        ELSE LET ext == ExtendTimeVector(BaseTimeVector(valid_times), required_end_time)
                 red == PadToTime(r.time, r.data, ext.time_vector)
                 green == PadToTime(g.time, g.data, ext.time_vector)
                 blue == PadToTime(b.time, b.data, ext.time_vector)
                 summary == CalculateSummarySignal(red, green, blue)
             IN  IF summary.status # "ok"
                 THEN [NoData EXCEPT !.status = summary.status]
                 ELSE [status |-> "ok", time_vector |-> ext.time_vector,
                       red_data |-> red, green_data |-> green, blue_data |-> blue,
                       summary_data |-> summary.rows,
                       extended |-> ext.extended, avg_step |-> ext.avg_step,
                       default |-> ext.default]

\* --------------------------------------- visualize_summary_signal.py padding
\* The timestamps of a file as the floats numpy holds.
ToRat(times) == [k \in 1..Len(times) |-> RInt(times[k])]

\* np.linspace(last_time, target_time, num_padding_points + 1)[1:]
LinspaceTail(last_time, target_time, num_padding_points) ==
    [k \in 1..num_padding_points |->
        RAdd(last_time, RDiv(RMulInt(k, RSub(target_time, last_time)), RInt(num_padding_points)))]

\* pad_signals_to_time
PadSignalsToTime(time_vector, signal_rows, target_time, num_padding_points) ==
    LET last_time == time_vector[Len(time_vector)]
    IN  IF RLeq(target_time, last_time)
        THEN [time |-> time_vector, rows |-> signal_rows]
        ELSE [time |-> time_vector \o LinspaceTail(last_time, target_time, num_padding_points),
              rows |-> [i \in 1..Len(signal_rows) |-> HoldLast(signal_rows[i], num_padding_points)]]

\* np.searchsorted(a, v, side='right') on a non-decreasing a
SearchSortedRight(a, v) == Cardinality({i \in 1..Len(a) : RLeq(a[i], v)})

\* ------------------------------------------------------------ configuration
\* Datasets in the shape of config.EXPERIMENTS: a flat list of boundaries,
\* start and end of each cycle, and the concentration labels in order.
ConfigSingle ==
    [gas |-> "ammonia", dataset |-> "100",
     intervals |-> <<1, 3>>, concentrations |-> <<100>>]
ConfigQuad ==
    [gas |-> "ammonia", dataset |-> "50_70",
     intervals |-> <<0, 1, 1, 2, 2, 3, 3, 4>>, concentrations |-> <<50, 70>>]

Configs == {ConfigSingle, ConfigQuad}

\* Datasets whose number of cycles is not a multiple of the number of
\* concentrations: three cycles, and one cycle, for two concentrations.
ConfigUneven ==
    [gas |-> "ammonia", dataset |-> "50_70",
     intervals |-> <<0, 1, 1, 2, 2, 3>>, concentrations |-> <<50, 70>>]
ConfigSparse ==
    [gas |-> "ammonia", dataset |-> "50_70",
     intervals |-> <<1, 3>>, concentrations |-> <<50, 70>>]
UnevenConfigs == {ConfigUneven, ConfigSparse}

\* config.EXPERIMENTS: every dataset of every gas, with its key, its cycle
\* boundaries and its concentration labels.
Experiments ==
    {
      [gas |-> "ammonia", dataset |-> "10_30",
       intervals |-> <<665, 984, 1319, 1643, 1965, 2282, 2648, 2970, 3298, 3640,
                     3970, 4296, 4631, 4956, 5292, 5618, 5948, 6276, 6608, 6945>>,
       concentrations |-> <<10, 30>>],
      [gas |-> "ammonia", dataset |-> "50_70",
       intervals |-> <<653, 977, 1315, 1646, 1972, 2265, 2637, 2960, 3296, 3632,
                     3960, 4267, 4615, 4932, 5291, 5598, 5929, 6278, 6591, 6916>>,
       concentrations |-> <<50, 70>>],
      [gas |-> "ammonia", dataset |-> "100",
       intervals |-> <<669, 998, 1316, 1658, 1978, 2321, 2648, 2982, 3313, 3642>>,
       concentrations |-> <<100>>],
      [gas |-> "cadaverine", dataset |-> "10_30",
       intervals |-> <<730, 1055, 1380, 1705, 2030, 2355, 2680, 3005, 3330, 3655,
                     3980, 4305, 4641, 4956, 5302, 5632, 5929, 6296, 6624, 6950>>,
       concentrations |-> <<10, 30>>],
      [gas |-> "cadaverine", dataset |-> "50_70",
       intervals |-> <<658, 996, 1332, 1649, 1994, 2303, 2650, 2982, 3310, 3653,
                     3983, 4276, 4642, 4960, 5294, 5631, 5959, 6283, 6613, 6952>>,
       concentrations |-> <<50, 70>>],
      [gas |-> "cadaverine", dataset |-> "100",
       intervals |-> <<665, 983, 1331, 1658, 1993, 2315, 2646, 2990, 3308, 3653>>,
       concentrations |-> <<100>>],
      [gas |-> "methylamine", dataset |-> "10_30",
       intervals |-> <<678, 970, 1297, 1652, 1960, 2361, 2647, 3000, 3302, 3648,
                     3957, 4302, 4637, 4969, 5305, 5619, 5945, 6291, 6610, 6950>>,
       concentrations |-> <<10, 30>>],
      [gas |-> "methylamine", dataset |-> "50_70",
       intervals |-> <<667, 969, 1295, 1659, 1993, 2325, 2640, 2965, 3315, 3617,
                     3980, 4308, 4636, 4969, 5303, 5609, 5960, 6286, 6622, 6949>>,
       concentrations |-> <<50, 70>>],
      [gas |-> "methylamine", dataset |-> "100",
       intervals |-> <<666, 1003, 1330, 1664, 1978, 2329, 2655, 2991, 3314, 3652>>,
       concentrations |-> <<100>>],
      [gas |-> "putrescine", dataset |-> "10_30",
       intervals |-> <<674, 969, 1308, 1645, 1988, 2262, 2641, 2906, 3291, 3604,
                     3972, 4297, 4622, 4986, 5296, 5613, 5961, 6261, 6628, 6962>>,
       concentrations |-> <<10, 30>>],
      [gas |-> "putrescine", dataset |-> "50_70",
       intervals |-> <<678, 1018, 1347, 1684, 2019, 2347, 2678, 3005, 3343, 3673,
                     4004, 4336, 4668, 4986, 4668, 5662, 5992, 6271, 5992, 6271>>,
       concentrations |-> <<50, 70>>],
      [gas |-> "putrescine", dataset |-> "100",
       intervals |-> <<668, 1000, 1332, 1662, 1993, 2324, 2653, 2981, 3305, 3646>>,
       concentrations |-> <<100>>],
      [gas |-> "trimethylamine", dataset |-> "10_30",
       intervals |-> <<668, 1002, 1307, 1653, 1979, 2343, 2650, 2936, 3283, 3662,
                     3969, 4311, 4639, 4950, 5285, 5608, 5918, 6286, 6619, 6948>>,
       concentrations |-> <<10, 30>>],
      [gas |-> "trimethylamine", dataset |-> "50_70",
       intervals |-> <<658, 996, 1327, 1657, 1942, 2316, 2621, 2977, 3269, 3636,
                     3958, 4278, 4629, 4960, 5285, 5612, 5947, 6277, 6607, 6941>>,
       concentrations |-> <<50, 70>>],
      [gas |-> "trimethylamine", dataset |-> "100",
       intervals |-> <<667, 994, 1329, 1659, 1976, 2314, 2646, 2980, 3314, 3635>>,
       concentrations |-> <<100>>]
    }

\* ------------------------------------------------------------------- state
VARIABLES
    files,              \* the three channel CSVs of the dataset directory
    config,             \* the dataset configuration the user picks
    sensor,             \* the SensorData object of the last launch
    script,             \* visualize_summary_signal.py: its position and values
    view,               \* what the content frame shows
    main,               \* main(): its position, and what sys.stdout is
    time,               \* InteractiveDraggableAnalyzer.time
    all_signals,        \* .all_signals
    selected_row_idx,   \* .selected_row_idx; active_row_signals is its matrix
    selected_sensor_idx,\* .selected_sensor_idx
    is_dragging,        \* .is_dragging
    start_point_data,   \* .start_point_data: <<>> for None, or <<time, value>>
    analysis_elements,  \* .analysis_elements: the artists of the selection
    shading,            \* the axvspan of each cycle drawn by _redraw_plot
    window_active,      \* history: a drag motion drew a window that no later
                        \* press or row change cleared (not a field of the code)
    press_point,        \* history: the sample point the last press in the axes
                        \* chose, <<>> when it chose none
    repeat_run,         \* history: the last handler was an extraction past its
                        \* guard, right after another one
    extracted,          \* extracted_data/: its directories and files
    saved,              \* the np.savetxt calls of the last handler
    printed,            \* the load and extraction lines the last handler printed
    raised              \* the exception that escaped it, "" for none

dataVars == <<files, config>>
analyzerVars == <<time, all_signals, selected_row_idx, selected_sensor_idx,
                  is_dragging, start_point_data, analysis_elements, shading>>
historyVars == <<window_active, press_point>>
vars == <<files, config, sensor, script, view, main, time, all_signals, selected_row_idx,
          selected_sensor_idx, is_dragging, start_point_data, analysis_elements,
          shading, window_active, press_point, repeat_run, extracted, saved, printed,
          raised>>

None == <<>>

\* The two programs of the repository: the application
\* (main_interactive_analyzer.py) and the script (visualize_summary_signal.py).
ScriptNotRun == [pc |-> "not run", loaded |-> <<>>, padded |-> <<>>,
                 time |-> <<>>, summary |-> <<>>]
ScriptStart == [ScriptNotRun EXCEPT !.pc = "start"]

\* main() of main_interactive_analyzer.py: not run (the script runs instead),
\* at its first statement, or in root.mainloop() with stdout redirected.
MainNotRun == [pc |-> "not run", stdout |-> "console"]
MainStart == [pc |-> "start", stdout |-> "console"]
MainLoop == [pc |-> "mainloop", stdout |-> "LOGGER"]

\* The state a program starts in, for a set of datasets: the application at
\* one of its selector views, or the script (which has no view).  The three
\* channels of a dataset are sampled alike and may differ in length.
InitWith(views, patterns, profiles, lens, configs) ==
    /\ view \in views
    /\ script = IF view = "none" THEN ScriptStart ELSE ScriptNotRun
    /\ main = CASE view = "none" -> MainNotRun
                [] view = "not started" -> MainStart
                [] OTHER -> MainLoop
    /\ \E pat \in patterns, p \in profiles :
         \E r \in FileChoices("red", pat, {p}, lens),
            g \in FileChoices("green", pat, {p}, lens),
            b \in FileChoices("blue", pat, {p}, lens) :
              files = [ch \in Channels |->
                         CASE ch = "red" -> r [] ch = "green" -> g [] OTHER -> b]
    /\ config \in configs
    /\ sensor = NoData
    /\ time = <<>>
    /\ all_signals = <<>>
    /\ selected_row_idx = 0
    /\ selected_sensor_idx = 0
    /\ is_dragging = FALSE
    /\ start_point_data = None
    /\ analysis_elements = <<>>
    /\ shading = <<>>
    /\ window_active = FALSE
    /\ press_point = None
    /\ repeat_run = FALSE
    /\ extracted = [dirs |-> {}, files |-> <<>>]
    /\ saved = {}
    /\ printed = <<>>
    /\ raised = ""

\* One printed line: what it says, and about what.
Msg(tag, arg, n) == [tag |-> tag, arg |-> arg, n |-> n]

Says(tag) == \E k \in 1..Len(printed) : printed[k].tag = tag

\* --------------------------------------------------------------- analyzer
\* np.searchsorted(a, v) on a non-decreasing a: the first (0-based) index
\* whose value is >= v, len(a) when there is none.
SearchSorted(a, v) ==
    LET hits == {i \in 1..Len(a) : RLeq(v, a[i])}
    IN  IF hits = {} THEN Len(a) ELSE MinOfSet(hits) - 1

\* The cycles shaded by _redraw_plot: for i in range(0, len(intervals), 2),
\* conc_index = i // (2 * num_cycles_per_conc).
ShadeIndex(i, num_cycles_per_conc) == i \div (2 * num_cycles_per_conc)

RECURSIVE ShadeFrom(_, _, _, _)
ShadeFrom(i, intervals, num_cycles_per_conc, acc) ==
    IF i >= Len(intervals) THEN [status |-> "ok", spans |-> acc]
    ELSE IF num_cycles_per_conc = 0 THEN [status |-> "ZeroDivisionError", spans |-> acc]
    ELSE IF i + 2 > Len(intervals) THEN [status |-> "IndexError", spans |-> acc]
    ELSE ShadeFrom(i + 2, intervals, num_cycles_per_conc,
                   Append(acc, [conc_index |-> ShadeIndex(i, num_cycles_per_conc),
                                color |-> ShadeIndex(i, num_cycles_per_conc) % 4,
                                start |-> intervals[i + 1], end |-> intervals[i + 2]]))

\* InteractiveDraggableAnalyzer._redraw_plot
RedrawPlot(cfg) ==
    ShadeFrom(0, cfg.intervals,
              Len(cfg.intervals) \div (2 * Len(cfg.concentrations)), <<>>)

\* matrix.shape[1] of a matrix with at least one row
Shape1(matrix) == Len(matrix[1])

\* self.active_row_signals[:, self.selected_sensor_idx]
SignalTrace(signals, row_idx, sensor_idx) ==
    [t \in 1..Len(signals[row_idx + 1]) |-> signals[row_idx + 1][t][sensor_idx + 1]]

Marker(kind, x, y) == [kind |-> kind, x |-> x, x2 |-> x, y |-> y]
Bar(x, x2) == [kind |-> "bar", x |-> x, x2 |-> x2, y |-> 0]

\* max(max(self.time), self.intervals[-1]) + 100: the right edge of the axes
AxesMargin == 100

\* The points of the axes a pointer event reports as event.xdata in the
\* model: the left edge, a point inside, the last boundary and the right edge.
ClickPoints(cfg) ==
    LET last == cfg.intervals[Len(cfg.intervals)]
    IN  {RInt(x) : x \in {0, 2, last, last + AxesMargin}}

\* A pointer event: in the plot axes at a point, or outside them (event.inaxes
\* is then another axes or None, and xdata is not read).
PointerEvents(cfg) ==
    {[inaxes |-> TRUE, xdata |-> x] : x \in ClickPoints(cfg)}
        \cup {[inaxes |-> FALSE, xdata |-> RInt(0)]}

\* ------------------------------------------------------------- extraction
\* Variant: concentrations dealt round-robin.
ConcIndexModulo(cycle_idx, num_cycles_per_conc) == cycle_idx % num_cycles_per_conc

\* conc_index = cycle_idx // num_cycles_per_conc
ConcIndex(cycle_idx, num_cycles_per_conc) == cycle_idx \div num_cycles_per_conc

\* Variant: a cycle that only overlaps the window qualifies.
Overlaps(cycle_start_time, cycle_end_time, user_start_time, user_end_time) ==
    /\ RLeq(RInt(cycle_start_time), user_end_time)
    /\ RLeq(user_start_time, RInt(cycle_end_time))

\* cycle_start_time >= user_start_time and cycle_end_time <= user_end_time
Qualifies(cycle_start_time, cycle_end_time, user_start_time, user_end_time) ==
    /\ RLeq(user_start_time, RInt(cycle_start_time))
    /\ RLeq(RInt(cycle_end_time), user_end_time)

\* f"{cycle_num:02d}"
Pad2(n) == IF n < 10 THEN "0" \o ToString(n) ELSE ToString(n)

OutputBaseDir(gas_name) == "extracted_data/" \o gas_name
\* Variant: no directory level for the concentration.
ConcentrationDirFlat(gas_name, concentration) == OutputBaseDir(gas_name)

ConcentrationDir(gas_name, concentration) ==
    OutputBaseDir(gas_name) \o "/concentration_" \o ToString(concentration)
CycleDir(gas_name, concentration, cycle_num) ==
    ConcentrationDir(gas_name, concentration) \o "/Cycle_" \o Pad2(cycle_num)
OutputFilename(gas_name, concentration, cycle_num, row_idx, sensor_idx) ==
    CycleDir(gas_name, concentration, cycle_num)
        \o "/C" \o ToString(row_idx + 1) \o "_A" \o ToString(sensor_idx + 1) \o ".csv"

\* np.vstack((time[start:end], row[start:end, sensor])).T under the header
Segment(tm, row_data, start_idx, end_idx, sensor_idx) ==
    [header |-> "time,intensity",
     rows |-> [k \in 1..(end_idx - start_idx) |->
                 <<tm[start_idx + k], row_data[start_idx + k][sensor_idx + 1]>>]]

\* Variant: the files of the selected (first) sensor row only.
CycleWritesFirstRow(cfg, tm, signals, cycle_idx, concentration, start_idx, end_idx) ==
    {[path |-> OutputFilename(cfg.gas, concentration, cycle_idx + 1, 0, sensor_idx),
      cycle_idx |-> cycle_idx, row_idx |-> 0, sensor_idx |-> sensor_idx,
      concentration |-> concentration,
      content |-> Segment(tm, signals[1], start_idx, end_idx, sensor_idx)] :
          sensor_idx \in 0..(Shape1(signals[1]) - 1)}

\* The np.savetxt calls of one qualifying cycle: one per sensor row and column.
CycleWrites(cfg, tm, signals, cycle_idx, concentration, start_idx, end_idx) ==
    UNION {
      {[path |-> OutputFilename(cfg.gas, concentration, cycle_idx + 1, row_idx, sensor_idx),
        cycle_idx |-> cycle_idx, row_idx |-> row_idx, sensor_idx |-> sensor_idx,
        concentration |-> concentration,
        content |-> Segment(tm, signals[row_idx + 1], start_idx, end_idx, sensor_idx)] :
            sensor_idx \in 0..(Shape1(signals[row_idx + 1]) - 1)} :
        row_idx \in 0..(Len(signals) - 1)}

\* Variant: a write to an existing file appends its rows.
SaveAllAppend(fs, writes) ==
    [path \in DOMAIN fs \cup {w.path : w \in writes} |->
        IF \E w \in writes : w.path = path
        THEN LET content == (CHOOSE w \in writes : w.path = path).content
             IN  IF path \in DOMAIN fs
                 THEN [content EXCEPT !.rows = fs[path].rows \o @]
                 ELSE content
        ELSE fs[path]]

\* The file system after the calls: a later write replaces the file.
SaveAll(fs, writes) ==
    [path \in DOMAIN fs \cup {w.path : w \in writes} |->
        IF \E w \in writes : w.path = path
        THEN (CHOOSE w \in writes : w.path = path).content
        ELSE fs[path]]

\* A call without its content.
CallOf(w) == [path |-> w.path, cycle_idx |-> w.cycle_idx, row_idx |-> w.row_idx,
              sensor_idx |-> w.sensor_idx, concentration |-> w.concentration]

\* The loop over the cycles, from cycle_idx on.  acc holds the directories
\* and files on disk, the calls made, the count, the lines printed and the
\* exception that ended the loop.
RECURSIVE ExtractFrom(_, _, _, _, _, _, _)
ExtractFrom(cycle_idx, cfg, tm, signals, user_start_time, user_end_time, acc) ==
    LET num_cycles == Len(cfg.intervals) \div 2
        num_concentrations == Len(cfg.concentrations)
        num_cycles_per_conc == num_cycles \div num_concentrations
        cycle_start_time == cfg.intervals[cycle_idx * 2 + 1]
        cycle_end_time == cfg.intervals[cycle_idx * 2 + 2]
    IN  IF cycle_idx >= num_cycles THEN acc
        ELSE IF ~Qualifies(cycle_start_time, cycle_end_time, user_start_time, user_end_time)
        THEN ExtractFrom(cycle_idx + 1, cfg, tm, signals, user_start_time, user_end_time, acc)
        ELSE IF num_cycles_per_conc = 0 THEN [acc EXCEPT !.raised = "ZeroDivisionError"]
        ELSE IF ConcIndex(cycle_idx, num_cycles_per_conc) >= num_concentrations
        THEN [acc EXCEPT !.raised = "IndexError"]
        ELSE LET concentration == cfg.concentrations[ConcIndex(cycle_idx, num_cycles_per_conc) + 1]
                 start_idx == SearchSorted(tm, RInt(cycle_start_time))
                 end_idx == SearchSorted(tm, RInt(cycle_end_time))
                 dirs == acc.dirs \cup {ConcentrationDir(cfg.gas, concentration),
                                        CycleDir(cfg.gas, concentration, cycle_idx + 1)}
                 line == Msg("Processing Cycle", ToString(concentration), cycle_idx + 1)
                 writes == CycleWrites(cfg, tm, signals, cycle_idx, concentration, start_idx, end_idx)
             IN  IF start_idx >= end_idx
                 THEN ExtractFrom(cycle_idx + 1, cfg, tm, signals, user_start_time, user_end_time,
                                  [acc EXCEPT !.dirs = dirs, !.printed = Append(@, line)])
                 ELSE ExtractFrom(cycle_idx + 1, cfg, tm, signals, user_start_time, user_end_time,
                                  [acc EXCEPT !.dirs = dirs,
                                              !.printed = Append(@, line),
                                              !.files = SaveAll(@, writes),
                                              !.calls = @ \cup {CallOf(w) : w \in writes},
                                              !.count = @ + Cardinality(writes)])

\* ------------------------------------------------------- analyzer handlers
\* The lines end an extraction that got past its guard.
Summarized(lines) ==
    \E k \in 1..Len(lines) : lines[k].tag \in {"SUCCESS", "No full cycles"}

\* What a handler leaves behind besides its effect on the fields.
Ran(lines, exception) ==
    /\ printed' = lines
    /\ raised' = exception
    /\ repeat_run' = (Summarized(printed) /\ Summarized(lines))

\* InteractiveDraggableAnalyzer._on_press
OnPress(inaxes, xdata) ==
    /\ view = "analyzer"
    /\ saved' = {}
    /\ IF ~inaxes
       THEN /\ Ran(<<>>, "")
            /\ UNCHANGED <<is_dragging, start_point_data, analysis_elements, historyVars>>
       ELSE LET start_idx == SearchSorted(time, xdata)
                signal_trace == SignalTrace(all_signals, selected_row_idx, selected_sensor_idx)
            IN  /\ is_dragging' = TRUE
                /\ window_active' = FALSE
                /\ Ran(<<>>, "")
                /\ IF start_idx >= Len(time)
                   THEN /\ analysis_elements' = <<>>
                        /\ press_point' = None
                        /\ UNCHANGED start_point_data
                   ELSE /\ start_point_data' = <<time[start_idx + 1], signal_trace[start_idx + 1]>>
                        /\ press_point' = <<time[start_idx + 1], signal_trace[start_idx + 1]>>
                        /\ analysis_elements' =
                              <<Marker("marker1", time[start_idx + 1], signal_trace[start_idx + 1])>>
    /\ UNCHANGED <<main, dataVars, sensor, script, view, time, all_signals, selected_row_idx,
                   selected_sensor_idx, shading, extracted>>

\* Variant: the end index is used as the search returns it.
ClampEndKeeps(end_idx, tm) == end_idx

\* if end_idx >= len(self.time): end_idx = len(self.time) - 1
ClampEnd(end_idx, tm) == IF end_idx >= Len(tm) THEN Len(tm) - 1 ELSE end_idx

\* InteractiveDraggableAnalyzer._on_motion
OnMotion(inaxes, xdata) ==
    /\ view = "analyzer"
    /\ saved' = {}
    /\ IF ~is_dragging \/ ~inaxes
       THEN /\ Ran(<<>>, "")
            /\ UNCHANGED <<analysis_elements, window_active>>
       ELSE LET kept == IF Len(analysis_elements) > 1
                        THEN FirstK(analysis_elements, 1) ELSE analysis_elements
                end_idx == ClampEnd(SearchSorted(time, xdata), time)
                signal_trace == SignalTrace(all_signals, selected_row_idx, selected_sensor_idx)
            IN  IF end_idx >= Len(time)
                THEN /\ Ran(<<>>, "IndexError")
                     /\ analysis_elements' = kept
                     /\ UNCHANGED window_active
                ELSE IF start_point_data = None
                THEN /\ Ran(<<>>, "TypeError")
                     /\ analysis_elements' = kept
                     /\ UNCHANGED window_active
                ELSE /\ Ran(<<>>, "")
                     /\ window_active' = TRUE
                     /\ analysis_elements' =
                           kept \o <<Bar(start_point_data[1], time[end_idx + 1]),
                                     Marker("marker2", time[end_idx + 1], signal_trace[end_idx + 1])>>
    /\ UNCHANGED <<main, dataVars, sensor, script, view, time, all_signals, selected_row_idx,
                   selected_sensor_idx, is_dragging, start_point_data, shading,
                   press_point, extracted>>

\* InteractiveDraggableAnalyzer._on_release
OnRelease(inaxes, xdata) ==
    /\ view = "analyzer"
    /\ saved' = {}
    /\ is_dragging' = FALSE
    /\ IF ~is_dragging \/ ~inaxes
       THEN Ran(<<>>, "")
       ELSE IF start_point_data = None
       THEN Ran(<<>>, "TypeError")
       ELSE LET start_idx == SearchSorted(time, start_point_data[1])
                end_idx == ClampEnd(SearchSorted(time, xdata), time)
            IN  IF start_idx >= Len(time) \/ end_idx >= Len(time)
                THEN Ran(<<>>, "IndexError")
                ELSE Ran(<<>>, "")
    /\ UNCHANGED <<main, dataVars, sensor, script, view, time, all_signals, selected_row_idx,
                   selected_sensor_idx, start_point_data, analysis_elements, shading,
                   historyVars, extracted>>

\* Variant: the list of matrices is replaced by the matrix of the row.
OnRowChangeKeepsRowOnly(row) ==
    /\ view = "analyzer"
    /\ saved' = {}
    /\ selected_row_idx' = row - 1
    /\ all_signals' = <<all_signals[row]>>
    /\ LET drawn == RedrawPlot(config)
       IN  /\ analysis_elements' = <<>>
           /\ window_active' = FALSE
           /\ shading' = drawn.spans
           /\ Ran(<<>>,
                  IF drawn.status = "ok" THEN "" ELSE drawn.status)
    /\ UNCHANGED <<main, dataVars, sensor, script, view, time, selected_sensor_idx,
                   is_dragging, start_point_data, press_point, extracted>>

\* InteractiveDraggableAnalyzer._on_row_change: label "Row C<row+1>"
OnRowChange(row) ==
    /\ view = "analyzer"
    /\ saved' = {}
    /\ selected_row_idx' = row - 1
    /\ LET drawn == RedrawPlot(config)
       IN  /\ analysis_elements' = <<>>
           /\ window_active' = FALSE
           /\ shading' = drawn.spans
           /\ Ran(<<>>,
                  IF drawn.status = "ok" THEN "" ELSE drawn.status)
    /\ UNCHANGED <<main, dataVars, sensor, script, view, time, all_signals, selected_sensor_idx,
                   is_dragging, start_point_data, press_point, extracted>>

\* InteractiveDraggableAnalyzer._on_sensor_change: label "Sensor A<sensor+1>"
OnSensorChange(sensor_label) ==
    /\ view = "analyzer"
    /\ saved' = {}
    /\ selected_sensor_idx' = sensor_label - 1
    /\ Ran(<<>>, "")
    /\ UNCHANGED <<main, dataVars, sensor, script, view, time, all_signals, selected_row_idx,
                   is_dragging, start_point_data, analysis_elements, shading,
                   historyVars, extracted>>

\* Variant: the guard looks at the start point only.
NoStartPoint == start_point_data = None

\* not self.start_point_data or len(self.analysis_elements) < 3
NoWindow == start_point_data = None \/ Len(analysis_elements) < 3

\* The end of _extract_and_save_all_data: the files of the cycle loop, and
\* the line that reports their number.
ExtractionDone(done) ==
    /\ extracted' = [dirs |-> done.dirs, files |-> done.files]
    /\ saved' = done.calls
    /\ Ran(IF done.raised # "" THEN done.printed
           ELSE IF done.count > 0
           THEN Append(done.printed, Msg("SUCCESS", "", done.count))
           ELSE Append(done.printed, Msg("No full cycles", "", 0)),
           done.raised)

\* InteractiveDraggableAnalyzer._extract_and_save_all_data
ExtractAndSaveAllData ==
    /\ view = "analyzer"
    /\ IF NoWindow
       THEN /\ Ran(<<Msg("Extraction failed", "", 0)>>, "")
            /\ saved' = {}
            /\ UNCHANGED extracted
       ELSE IF analysis_elements = <<>>
       THEN /\ Ran(<<>>, "IndexError")
            /\ saved' = {}
            /\ UNCHANGED extracted
       ELSE IF analysis_elements[Len(analysis_elements)].kind = "bar"
       THEN /\ Ran(<<>>, "AttributeError")
            /\ saved' = {}
            /\ UNCHANGED extracted
       ELSE ExtractionDone(
                ExtractFrom(0, config, time, all_signals, start_point_data[1],
                            analysis_elements[Len(analysis_elements)].x,
                            [dirs |-> extracted.dirs \cup {OutputBaseDir(config.gas)},
                             files |-> extracted.files, calls |-> {}, count |-> 0,
                             printed |-> <<>>, raised |-> ""]))
    /\ UNCHANGED <<main, dataVars, sensor, script, view, analyzerVars, historyVars>>

\* ---------------------------------------------------------- AppController
\* The analyzer fields when no analyzer view is shown.
NoAnalyzer ==
    /\ time' = <<>>
    /\ all_signals' = <<>>
    /\ selected_row_idx' = 0
    /\ selected_sensor_idx' = 0
    /\ is_dragging' = FALSE
    /\ start_point_data' = None
    /\ analysis_elements' = <<>>
    /\ shading' = <<>>
    /\ window_active' = FALSE
    /\ press_point' = None

\* The "Error: <path> not found." lines, in the order of the loads.
NotFoundLines(fs) ==
    LET missing == SelectSeq(ChannelOrder, LAMBDA ch : ~fs[ch].exists)
    IN  [k \in 1..Len(missing) |-> Msg("not found", missing[k], 0)]

\* The lines of a successful SensorData construction.
LoadLines(data) ==
    (IF data.extended THEN <<Msg("Extending time vector", "", 0)>> ELSE <<>>)
    \o (IF data.default THEN <<Msg("Using default step", "", 0)>> ELSE <<>>)

\* AppController.launch_dataset_selector, from the gas selector
LaunchDatasetSelector ==
    /\ view = "gas_selector"
    /\ view' = "dataset_selector"
    /\ Ran(<<>>, "")
    /\ UNCHANGED <<main, dataVars, sensor, script, analyzerVars, historyVars, extracted, saved>>

\* Variant: except ValueError as e
CaughtValueErrorOnly(exception) == exception = "ValueError"

\* except (IOError, ValueError) as e
Caught(exception) == exception \in {"IOError", "ValueError"}

\* AppController.launch_analyzer: SensorData(...), then the analyzer view
\* (InteractiveDraggableAnalyzer.__init__, which draws the plot); IOError
\* and ValueError are caught and printed, anything else escapes.
AnalyzerLaunched(data, drawn) ==
    /\ sensor' = data
    /\ IF data.status # "ok"
       THEN /\ view' = "blank"
            /\ NoAnalyzer
            /\ IF Caught(data.status)
               THEN Ran(NotFoundLines(files) \o <<Msg("An error occurred", data.status, 0)>>, "")
               ELSE Ran(NotFoundLines(files), data.status)
       ELSE IF drawn.status # "ok"
       THEN /\ view' = "blank"
            /\ NoAnalyzer
            /\ Ran(LoadLines(data), drawn.status)
       ELSE /\ view' = "analyzer"
            /\ time' = data.time_vector
            /\ all_signals' = data.summary_data
            /\ selected_row_idx' = 0
            /\ selected_sensor_idx' = 0
            /\ is_dragging' = FALSE
            /\ start_point_data' = None
            /\ analysis_elements' = <<>>
            /\ shading' = drawn.spans
            /\ window_active' = FALSE
            /\ press_point' = None
            /\ Ran(LoadLines(data) \o <<Msg("Analyzer Ready", "", 0)>>, "")

LaunchAnalyzer ==
    /\ view = "dataset_selector"
    /\ saved' = {}
    /\ AnalyzerLaunched(LoadAndProcess(files, config.intervals, NumRows), RedrawPlot(config))
    /\ UNCHANGED <<main, dataVars, script, extracted>>

\* InteractiveDraggableAnalyzer._go_back_to_dataset_choice
GoBackToDatasetChoice ==
    /\ view = "analyzer"
    /\ view' = "dataset_selector"
    /\ NoAnalyzer
    /\ saved' = {}
    /\ Ran(<<>>, "")
    /\ UNCHANGED <<main, dataVars, sensor, script, extracted>>

\* InteractiveDraggableAnalyzer._go_back_to_gas_choice
GoBackToGasChoice ==
    /\ view = "analyzer"
    /\ view' = "gas_selector"
    /\ NoAnalyzer
    /\ saved' = {}
    /\ Ran(<<>>, "")
    /\ UNCHANGED <<main, dataVars, sensor, script, extracted>>

\* ------------------------------------------------------------------ main
\* The methods of class RedirectedLogger.
LoggerMethods == {"__init__", "start", "_on_closing", "stop", "destroy", "write", "flush"}

\* root = tk.Tk()
MainCreateRoot ==
    /\ main.pc = "start"
    /\ main' = [main EXCEPT !.pc = "root"]
    /\ Ran(<<>>, "")
    /\ UNCHANGED <<dataVars, sensor, script, view, analyzerVars, historyVars, extracted, saved>>

\* The rest of main(): AppController(root, EXPERIMENTS), whose __init__
\* calls LOGGER.set_widget(log_widget); LOGGER.start(), which redirects
\* stdout; then, inside try, the first line and launch_gas_selector(), and
\* root.mainloop().  An exception of the constructor is raised before the try
\* statement, so its finally clause does not run.
MainRun ==
    /\ main.pc = "root"
    /\ IF "set_widget" \notin LoggerMethods
       THEN /\ main' = [main EXCEPT !.pc = "exited"]
            /\ Ran(<<>>, "AttributeError")
            /\ UNCHANGED view
       ELSE /\ main' = [pc |-> "mainloop", stdout |-> "LOGGER"]
            /\ view' = "gas_selector"
            /\ Ran(<<Msg("Application Started", "", 0)>>, "")
    /\ UNCHANGED <<dataVars, sensor, script, analyzerVars, historyVars, extracted, saved>>

\* ------------------------------------------- visualize_summary_signal.py
Unset == [status |-> "unset", time |-> <<>>, data |-> <<>>]

\* The three load_and_reshape_data calls of the script: an exception in one
\* ends the script before the next.
ScriptLoad ==
    /\ script.pc = "start"
    /\ LET r == LoadAndReshapeData(files["red"], NumRows)
           g == IF r.status \in {"ok", "none"}
                THEN LoadAndReshapeData(files["green"], NumRows) ELSE Unset
           b == IF g.status \in {"ok", "none"}
                THEN LoadAndReshapeData(files["blue"], NumRows) ELSE Unset
           loaded == [ch \in Channels |-> CASE ch = "red" -> r [] ch = "green" -> g [] OTHER -> b]
           crashed == \E ch \in Channels : loaded[ch].status \notin {"ok", "none", "unset"}
           lines == LET seen == SelectSeq(ChannelOrder, LAMBDA ch : loaded[ch].status = "none")
                    IN  [k \in 1..Len(seen) |-> Msg("not found", seen[k], 0)]
       IN  /\ script' = [script EXCEPT
                  !.loaded = loaded,
                  !.pc = IF crashed THEN "crashed"
                         ELSE IF \A ch \in Channels : loaded[ch].status = "ok"
                         THEN "loaded" ELSE "done"]
           /\ Ran(lines,
                  IF crashed
                  THEN (CHOOSE e \in {loaded[ch].status : ch \in Channels} :
                           e \notin {"ok", "none", "unset"})
                  ELSE "")
    /\ UNCHANGED <<main, dataVars, sensor, view, analyzerVars, historyVars, extracted, saved>>

\* The rest of the script: pad each channel to the required end time, trim
\* to the end index of the green time vector, combine, pad the summary.
ScriptPlot(padded, end_index, summary, required_end_time) ==
    LET final == PadSignalsToTime(FirstK(padded["green"].time, end_index), summary.rows,
                                  required_end_time, NumPaddingPoints)
    IN  IF summary.status # "ok"
        THEN /\ script' = [script EXCEPT !.pc = "crashed", !.padded = padded]
             /\ Ran(<<>>, summary.status)
        ELSE /\ script' = [script EXCEPT !.pc = "plotted", !.padded = padded,
                                         !.time = final.time, !.summary = final.rows]
             /\ Ran(<<Msg("Generating plots", "", end_index)>>, "")

ScriptCombine(padded, end_index, required_end_time) ==
    LET Trim(rows) == [i \in 1..Len(rows) |-> FirstK(rows[i], end_index)]
    IN  ScriptPlot(padded, end_index,
                   CalculateSummarySignal(Trim(padded["red"].rows), Trim(padded["green"].rows),
                                          Trim(padded["blue"].rows)),
                   required_end_time)

ScriptPad(padded, required_end_time) ==
    ScriptCombine(padded, SearchSortedRight(padded["green"].time, required_end_time),
                  required_end_time)

ScriptProcess ==
    /\ script.pc = "loaded"
    /\ ScriptPad([ch \in Channels |->
                     PadSignalsToTime(ToRat(script.loaded[ch].time), script.loaded[ch].data,
                                      RInt(config.intervals[Len(config.intervals)]),
                                      NumPaddingPoints)],
                 RInt(config.intervals[Len(config.intervals)]))
    /\ UNCHANGED <<main, dataVars, sensor, view, analyzerVars, historyVars, extracted, saved>>

\* ---------------------------------------------------------- specifications
\* The application: one dataset, any sequence of user events.
Init == InitWith({"gas_selector"}, {"flat"}, {"unit", "stall"}, {MaxLen}, Configs)

Next ==
    \/ LaunchDatasetSelector
    \/ LaunchAnalyzer
    \/ GoBackToDatasetChoice
    \/ GoBackToGasChoice
    \/ \E event \in PointerEvents(config) : OnPress(event.inaxes, event.xdata)
    \/ \E event \in PointerEvents(config) : OnMotion(event.inaxes, event.xdata)
    \/ \E event \in PointerEvents(config) : OnRelease(event.inaxes, event.xdata)
    \/ \E row \in 1..NumRows : OnRowChange(row)
    \/ \E sensor_label \in 1..NumCols : OnSensorChange(sensor_label)
    \/ ExtractAndSaveAllData

Spec == Init /\ [][Next]_vars

\* The application on a dataset with uneven cycles and concentrations.
UnevenInit == InitWith({"gas_selector"}, {"flat"}, {"unit", "stall"}, {MaxLen}, UnevenConfigs)

UnevenSpec == UnevenInit /\ [][Next]_vars

\* The start of the application, on the datasets of config.EXPERIMENTS.
StartupInit == InitWith({"not started"}, {"flat"}, Profiles \cup {"coarse"}, {MaxLen}, Experiments)

StartupNext == MainCreateRoot \/ MainRun

StartupSpec == StartupInit /\ [][StartupNext]_vars

\* The loaders on the datasets of the model: the construction of SensorData
\* through launch_analyzer, and the script.  Files of every length take the
\* sampled patterns with timestamps one apart and the ramp with every
\* timestamp profile but "zero", which (the time vector growing by the
\* default step) comes with files of MaxLen rows.
LoaderInit ==
    \/ InitWith({"dataset_selector"}, {"ramp"}, Profiles \ {"zero"}, 1..MaxLen, Configs)
    \/ InitWith({"dataset_selector"}, {"ramp"}, {"zero"}, {MaxLen}, Configs)
    \/ InitWith({"dataset_selector"}, Patterns \ {"ramp"}, {"unit"}, 1..MaxLen, Configs)
    \/ InitWith({"none"}, {"ramp"}, {"unit"}, 1..MaxLen, Configs)
    \/ InitWith({"none"}, {"even"}, {"unit"}, {MaxLen}, Configs)

LoaderNext ==
    \/ LaunchAnalyzer
    \/ ScriptLoad
    \/ ScriptProcess

LoaderSpec == LoaderInit /\ [][LoaderNext]_vars

\* The application on the datasets of config.EXPERIMENTS: a launch, one
\* selection gesture and extractions.
ConfigInit == InitWith({"gas_selector"}, {"flat"}, {"coarse"}, {MaxLen}, Experiments)

ConfigNext ==
    \/ LaunchDatasetSelector
    \/ LaunchAnalyzer
    \/ \E event \in PointerEvents(config) : OnPress(event.inaxes, event.xdata)
    \/ \E event \in PointerEvents(config) : OnMotion(event.inaxes, event.xdata)
    \/ ExtractAndSaveAllData

ConfigSpec == ConfigInit /\ [][ConfigNext]_vars

\* ------------------------------------------------------------- properties
\* What the properties below read off a state.
SensorChannel(ch) ==
    CASE ch = "red" -> sensor.red_data [] ch = "green" -> sensor.green_data
      [] OTHER -> sensor.blue_data

\* The numbers of rows of the matrices of the four lists.
SensorMatrixRows ==
    UNION {{Len(SensorChannel(ch)[i]) : i \in 1..Len(SensorChannel(ch))} : ch \in Channels}
        \cup {Len(sensor.summary_data[i]) : i \in 1..Len(sensor.summary_data)}

NativeLen(ch) == Len(files[ch].rows)
NativeLens == {NativeLen(ch) : ch \in Channels}
LongestNative == MaxOfSet(NativeLens)
ShortestNative == MinOfSet(NativeLens)
RequiredEndTime == config.intervals[Len(config.intervals)]
MissingChannels == {ch \in Channels : ~files[ch].exists}
\* The samples of the red file differ from row to row and column to column.
RampData ==
    /\ NativeLen("red") > 1
    /\ files["red"].rows[1][2] # files["red"].rows[1][3]
    /\ files["red"].rows[1][2] # files["red"].rows[2][2]
ScriptLoaded == script.pc \notin {"not run", "start"}
ScriptPadded == script.pc = "plotted" \/ (script.pc = "crashed" /\ raised = "ValueError")
Smaller(a, b) == IF a < b THEN a ELSE b

\* C1: after a successful construction of SensorData every matrix of
\* red_data, green_data, blue_data and summary_data has exactly
\* len(time_vector) rows, and each of the four lists has num_rows matrices.
C1_RowsMatchTimeVector ==
    sensor.status = "ok" =>
        /\ \A ch \in Channels : Len(SensorChannel(ch)) = NumRows
        /\ Len(sensor.summary_data) = NumRows
        /\ \A rows \in SensorMatrixRows : rows = Len(sensor.time_vector)

\* C1 happens: three channels of three different lengths, and a time vector
\* longer than all of them.
C1_PaddedAndExtended ==
    /\ sensor.status = "ok"
    /\ Cardinality(NativeLens) = 3
    /\ sensor.extended
    /\ Len(sensor.time_vector) > LongestNative

\* C2: after a successful construction the last timestamp of time_vector is
\* at least the required end time, intervals[-1], with or without extension.
C2_CoversRequiredEndTime ==
    sensor.status = "ok" =>
        /\ sensor.time_vector # <<>>
        /\ RLeq(RInt(RequiredEndTime), sensor.time_vector[Len(sensor.time_vector)])

\* C2 happens: the longest channel ends before the required end time and the
\* time vector is extended by the average of its positive steps.
C2_ExtendedToEndTime ==
    /\ sensor.status = "ok"
    /\ sensor.extended
    /\ ~sensor.default
    /\ \A ch \in Channels : files[ch].rows[NativeLen(ch)][1] < RequiredEndTime

\* C3: a padded channel keeps its native samples at the indices below its
\* native length and repeats its last native sample at every index from
\* there on, in SensorData (_pad_to_time) as in the script
\* (pad_signals_to_time, which appends num_padding_points samples).
C3_ConstantHold ==
    /\ sensor.status = "ok" =>
          \A ch \in Channels : \A i \in 1..NumRows :
             \A t \in 1..Len(SensorChannel(ch)[i]) :
                SensorChannel(ch)[i][t] =
                    LoadAndReshape(files[ch], NumRows).data[i][Smaller(t, NativeLen(ch))]
    /\ ScriptPadded =>
          \A ch \in Channels : \A i \in 1..NumRows :
             /\ Len(script.padded[ch].rows[i]) = Len(script.padded[ch].time)
             /\ Len(script.padded[ch].rows[i]) \in {NativeLen(ch), NativeLen(ch) + NumPaddingPoints}
             /\ \A t \in 1..Len(script.padded[ch].rows[i]) :
                   script.padded[ch].rows[i][t] =
                       script.loaded[ch].data[i][Smaller(t, NativeLen(ch))]

\* C3 happens: a channel of changing samples is shorter than the time vector.
C3_ShortChannelPadded ==
    /\ sensor.status = "ok"
    /\ RampData
    /\ NativeLen("red") < Len(sensor.time_vector)
    /\ NativeLen("red") < LongestNative

\* C4 as the specification states it: channels of differing native lengths
\* are cut to the shortest one, len(time_vector) = min(len1, len2, len3).
C4_TruncatesToShortest ==
    (sensor.status = "ok" /\ Cardinality(NativeLens) > 1) =>
        /\ Len(sensor.time_vector) = ShortestNative
        /\ \A rows \in SensorMatrixRows : rows = Len(sensor.time_vector)

\* C4, amended: channels of differing native lengths are synchronized to the
\* longest one.  The time vector starts with the timestamps of the longest
\* channel, so its length is at least max(len1, len2, len3), exactly that
\* when no extension is needed, and every matrix has len(time_vector) rows.
C4_SynchronizesToLongest ==
    (sensor.status = "ok" /\ Cardinality(NativeLens) > 1) =>
        /\ Len(sensor.time_vector) >= LongestNative
        /\ ~sensor.extended => Len(sensor.time_vector) = LongestNative
        /\ \A ch \in Channels :
              NativeLen(ch) = LongestNative =>
                 \A t \in 1..LongestNative :
                    sensor.time_vector[t] = RInt(files[ch].rows[t][1])
        /\ \A rows \in SensorMatrixRows : rows = Len(sensor.time_vector)

\* C4 happens: three different lengths and no extension, the dataset as long
\* as its longest channel and longer than its shortest.
C4_LongestKept ==
    /\ sensor.status = "ok"
    /\ Cardinality(NativeLens) = 3
    /\ ~sensor.extended
    /\ Len(sensor.time_vector) = LongestNative
    /\ Len(sensor.time_vector) > ShortestNative

\* The columns of one time step put back in file order from the matrices.
Reinterleave(matrices, t, n) ==
    [k \in 1..n |-> matrices[((k - 1) % NumRows) + 1][t][((k - 1) \div NumRows) + 1]]

\* Column j of sensor row i is column i + j*num_rows of the columns after
\* the timestamp, for every sensor row i, at time step t.
DeinterleavedAt(matrices, t, columns) ==
    /\ Len(matrices) = NumRows
    /\ \A i \in 0..(NumRows - 1) :
          /\ Len(matrices[i + 1][t]) =
                Cardinality({k \in 0..(Len(columns) - 1) : k % NumRows = i})
          /\ \A j \in 0..(Len(matrices[i + 1][t]) - 1) :
                matrices[i + 1][t][j + 1] = columns[i + j * NumRows + 1]
    /\ Reinterleave(matrices, t, Len(columns)) = columns

\* C5: both loaders deinterleave with a stride: column j of sensor row i is
\* input column i + j*num_rows (after the timestamp column), and putting the
\* matrices back together in that order gives the input columns again.
C5_StridedDeinterleave ==
    /\ sensor.status = "ok" =>
          \A ch \in Channels : \A t \in 1..NativeLen(ch) :
             DeinterleavedAt(SensorChannel(ch), t, Tail(files[ch].rows[t]))
    /\ ScriptLoaded =>
          \A ch \in Channels :
             script.loaded[ch].status = "ok" =>
                \A t \in 1..NativeLen(ch) :
                   DeinterleavedAt(script.loaded[ch].data, t, Tail(files[ch].rows[t]))

\* C5 happens: SensorData holds files whose columns all differ.
C5_DistinctColumnsLoaded ==
    /\ sensor.status = "ok"
    /\ RampData
    /\ NativeLen("red") = LongestNative

\* C6 as the specification states it: a CSV of a single data row loads, in
\* both loaders, as a time vector of length 1 and matrices of one row.
C6_SingleRowLoads ==
    \A ch \in Channels :
       (files[ch].exists /\ NativeLen(ch) = 1) =>
          /\ sensor.status # "none" =>
                LET loaded == LoadAndReshape(files[ch], NumRows)
                IN  /\ loaded.status = "ok"
                    /\ Len(loaded.time) = 1
                    /\ \A i \in 1..NumRows :
                          Len(loaded.data[i]) = 1 /\ Len(loaded.data[i][1]) = NumCols
          /\ (ScriptLoaded /\ script.loaded[ch].status # "unset") =>
                /\ script.loaded[ch].status = "ok"
                /\ Len(script.loaded[ch].time) = 1
                /\ \A i \in 1..NumRows :
                      /\ Len(script.loaded[ch].data[i]) = 1
                      /\ Len(script.loaded[ch].data[i][1]) = NumCols

\* C7: when a channel file is missing, the loader reports the file and
\* returns no data for it, the construction of SensorData ends in IOError,
\* no analyzer view is created, and launch_analyzer prints the failure
\* instead of letting the exception escape.
C7_MissingFileReported ==
    /\ MissingChannels # {} => view # "analyzer"
    /\ (MissingChannels # {} /\ sensor.status # "none") =>
          /\ \A ch \in MissingChannels :
                /\ \E k \in 1..Len(printed) : printed[k] = Msg("not found", ch, 0)
                /\ LoadAndReshape(files[ch], NumRows) = NoneResult
          /\ sensor = [NoData EXCEPT !.status = "IOError"]
          /\ view = "blank"
          /\ time = <<>> /\ all_signals = <<>> /\ shading = <<>>
          /\ printed[Len(printed)] = Msg("An error occurred", "IOError", 0)
          /\ raised = ""

\* C7 happens: a launch on a dataset with exactly one file missing.
C7_OneFileMissing ==
    /\ Cardinality(MissingChannels) = 1
    /\ sensor.status = "IOError"
    /\ view = "blank"

\* What the properties on the extraction read off a state: an extraction
\* that got past its guard ends with one of two lines.
Extracted == Says("SUCCESS") \/ Says("No full cycles")
UserStartTime == start_point_data[1]
UserEndTime == analysis_elements[Len(analysis_elements)].x
CycleCount(cfg) == Len(cfg.intervals) \div 2
CycleStart(cfg, k) == cfg.intervals[2 * k + 1]
CycleEnd(cfg, k) == cfg.intervals[2 * k + 2]
Written(k) == \E call \in saved : call.cycle_idx = k
Contained(k) ==
    /\ RLeq(UserStartTime, RInt(CycleStart(config, k)))
    /\ RLeq(RInt(CycleEnd(config, k)), UserEndTime)
\* A timestamp of the dataset lies in [cycle.start, cycle.end).
HasSamples(k) ==
    \E t \in 1..Len(time) :
        /\ RLeq(RInt(CycleStart(config, k)), time[t])
        /\ RLess(time[t], RInt(CycleEnd(config, k)))

\* The example of the containment rule: with the intervals
\* [100, 200, 300, 400], the window [50, 250] holds the first cycle only and
\* the window [50, 150] holds none.
ContainmentExample ==
    /\ Qualifies(100, 200, RInt(50), RInt(250))
    /\ ~Qualifies(300, 400, RInt(50), RInt(250))
    /\ ~Qualifies(100, 200, RInt(50), RInt(150))
    /\ ~Qualifies(300, 400, RInt(50), RInt(150))

\* C8 as the specification states it: an extraction writes the segment
\* files of a cycle if and only if the window contains the cycle,
\* user_start <= cycle.start and cycle.end <= user_end.
C8_WrittenIffContained ==
    /\ ContainmentExample
    /\ Extracted =>
          \A k \in 0..(CycleCount(config) - 1) : Written(k) <=> Contained(k)

\* C8, amended: an extraction writes the segment files of a cycle if and
\* only if the window contains the cycle and the dataset has a timestamp in
\* [cycle.start, cycle.end); a contained cycle without one is skipped.
C8_WrittenIffContainedWithSamples ==
    /\ ContainmentExample
    /\ Extracted =>
          \A k \in 0..(CycleCount(config) - 1) :
             Written(k) <=> (Contained(k) /\ HasSamples(k))

\* C8 happens: an extraction over a window that holds a cycle it writes, a
\* cycle it skips for want of samples, and that leaves a cycle out.
C8_WrittenSkippedAndLeftOut ==
    /\ Extracted
    /\ \E k \in 0..(CycleCount(config) - 1) : Contained(k) /\ Written(k)
    /\ \E k \in 0..(CycleCount(config) - 1) : Contained(k) /\ ~Written(k)
    /\ \E k \in 0..(CycleCount(config) - 1) : ~Contained(k) /\ ~Written(k)

PerConcentration(cfg) == CycleCount(cfg) \div Len(cfg.concentrations)

\* The example of the assignment: 10 cycles and the concentrations (10, 30)
\* give cycles 0-4 to 10 and cycles 5-9 to 30, in the extraction as in the
\* shading.
AssignmentExample ==
    \A k \in 0..9 :
       /\ <<10, 30>>[ConcIndex(k, 10 \div 2) + 1] = (IF k <= 4 THEN 10 ELSE 30)
       /\ <<10, 30>>[ShadeIndex(2 * k, 20 \div (2 * 2)) + 1] = (IF k <= 4 THEN 10 ELSE 30)

\* C9: when the number of cycles is a multiple of the number of
\* concentrations, cycle k belongs to the concentration at index
\* k // (num_cycles // num_concentrations): each concentration gets that
\* many consecutive cycles, and the extraction and the shading agree.
C9_ConcentrationAssignment ==
    /\ AssignmentExample
    /\ (view = "analyzer" /\ CycleCount(config) % Len(config.concentrations) = 0) =>
          /\ Len(shading) = CycleCount(config)
          /\ \A k \in 0..(CycleCount(config) - 1) :
                shading[k + 1].conc_index = k \div PerConcentration(config)
          /\ \A c \in 0..(Len(config.concentrations) - 1) :
                {k \in 0..(CycleCount(config) - 1) : shading[k + 1].conc_index = c}
                    = (c * PerConcentration(config))..((c + 1) * PerConcentration(config) - 1)
          /\ \A call \in saved :
                /\ call.concentration =
                      config.concentrations[(call.cycle_idx \div PerConcentration(config)) + 1]
                /\ call.concentration =
                      config.concentrations[shading[call.cycle_idx + 1].conc_index + 1]

\* C9 happens: an extraction that writes cycles of two concentrations.
C9_TwoConcentrationsExtracted ==
    /\ Says("SUCCESS")
    /\ Cardinality({call.concentration : call \in saved}) = 2
    /\ Cardinality({call.cycle_idx : call \in saved}) > 2

\* C10: an extraction invoked while no selection window is active (no press
\* yet, a press without a drag motion in the axes after it, or a window
\* cleared by a later press or a row change) prints the failure, writes
\* nothing and leaves the analyzer and the extracted files as they were.
C10_EmptySelection ==
    [][(~window_active /\ ExtractAndSaveAllData) =>
          /\ printed' = <<Msg("Extraction failed", "", 0)>>
          /\ raised' = ""
          /\ saved' = {}
          /\ extracted' = extracted
          /\ UNCHANGED analyzerVars]_vars

\* C10 happens: a failed extraction after a row change cleared the window of
\* an earlier, successful one, whose files are still there.
C10_FailedAfterClearedWindow ==
    /\ Says("Extraction failed")
    /\ ~window_active
    /\ start_point_data # None
    /\ analysis_elements = <<>>
    /\ saved = {}
    /\ extracted.files # <<>>

\* The count of the "SUCCESS: Extracted and saved <n> segments." line, 0 when
\* the extraction reports that it found no full cycle.
ReportedCount ==
    IF Says("SUCCESS")
    THEN (CHOOSE line \in {printed[k] : k \in 1..Len(printed)} : line.tag = "SUCCESS").n
    ELSE 0
ContainedCycles == {k \in 0..(CycleCount(config) - 1) : Contained(k)}
SampledCycles == {k \in ContainedCycles : HasSamples(k)}
\* The files of the run: the paths of its np.savetxt calls.
FilesOfRun == {call.path : call \in saved}

\* C11 as the specification states it: the reported count is the number of
\* segment files written in the run, which is (fully contained cycles) x
\* (sensor rows) x (sensor columns); with no contained cycle the count is
\* zero, nothing is written and the outcome is a message, not an error.
C11_CountIsContainedTimesSensors ==
    Extracted =>
        /\ ReportedCount = Cardinality(FilesOfRun)
        /\ ReportedCount = Cardinality(ContainedCycles) * NumRows * NumCols
        /\ ContainedCycles = {} =>
              (saved = {} /\ Says("No full cycles") /\ raised = "")

\* C11, amended: the reported count is the number of segment files written
\* in the run, which is (fully contained cycles that have a timestamp in
\* [cycle.start, cycle.end)) x (sensor rows) x (sensor columns); when there
\* is no such cycle the count is zero, nothing is written and the outcome is
\* the "no full cycles" message, not an error.
C11_CountIsSampledTimesSensors ==
    Extracted =>
        /\ ReportedCount = Cardinality(FilesOfRun)
        /\ ReportedCount = Cardinality(saved)
        /\ ReportedCount = Cardinality(SampledCycles) * NumRows * NumCols
        /\ raised = ""
        /\ SampledCycles = {} <=> Says("No full cycles")
        /\ SampledCycles = {} => saved = {}
        /\ \A path \in FilesOfRun : path \in DOMAIN extracted.files

\* C11 happens: a run that counts the files of two cycles and skips a
\* contained one.
C11_CountedWithSkippedCycle ==
    /\ Says("SUCCESS")
    /\ Cardinality(SampledCycles) = 2
    /\ Cardinality(ContainedCycles) > 2
    /\ ReportedCount = 2 * NumRows * NumCols

\* Where the extraction writes the segment of cycle k, sensor row r and
\* column c of dataset d (all 0-based).
SegmentPath(d, k, r, c) ==
    OutputFilename(d.gas, d.concentrations[ConcIndex(k, PerConcentration(d)) + 1], k + 1, r, c)

\* Every segment of every dataset of EXPERIMENTS, with its output path.
ExperimentSegments ==
    UNION {{[gas |-> d.gas, dataset |-> d.dataset, cycle_idx |-> k,
             row_idx |-> r, sensor_idx |-> c, path |-> SegmentPath(d, k, r, c)] :
                k \in 0..(CycleCount(d) - 1), r \in 0..(NumRows - 1), c \in 0..(NumCols - 1)} :
           d \in Experiments}

\* No two segments of EXPERIMENTS share an output path.
ExperimentPathsDistinct ==
    Cardinality({seg.path : seg \in ExperimentSegments}) = Cardinality(ExperimentSegments)

\* The layout of a path: gas directory, concentration label, 1-based cycle
\* number on two digits, C<row+1>_A<col+1>.csv.
PathExample ==
    /\ OutputFilename("ammonia", 10, 1, 0, 0)
          = "extracted_data/ammonia/concentration_10/Cycle_01/C1_A1.csv"
    /\ OutputFilename("putrescine", 100, 10, 1, 1)
          = "extracted_data/putrescine/concentration_100/Cycle_10/C2_A2.csv"

C16_IntervalsMonotone ==
    /\ \A k \in 1..(Len(config.intervals) - 1) :
          config.intervals[k] <= config.intervals[k + 1]
    /\ \A k \in 0..(CycleCount(config) - 1) : CycleStart(config, k) <= CycleEnd(config, k)
    /\ \A k \in 0..(CycleCount(config) - 2) : CycleEnd(config, k) <= CycleStart(config, k + 1)
    /\ \A k \in 1..Len(config.intervals) : config.intervals[k] <= RequiredEndTime

\* C13: an extraction repeated with the same selection window on the same
\* dataset leaves the set of output files and the content of every output
\* file as the first run left them (and makes the same calls and report).
C13_ExtractionIdempotent ==
    [][(Extracted /\ UNCHANGED analyzerVars /\ ExtractAndSaveAllData) =>
          /\ extracted' = extracted
          /\ saved' = saved
          /\ printed' = printed]_vars

\* C13 happens: a second run, right after a first, over a window with files.
C13_SecondRunWithFiles ==
    /\ repeat_run
    /\ Says("SUCCESS")
    /\ saved # {}
    /\ \A call \in saved : call.path \in DOMAIN extracted.files

\* 1000 * (0.299*R + 0.587*G + 0.114*B) * 2^56, exactly.
ExactLuminance1000(r, g, b) ==
    BigAdd(BigAdd(BigTimes(FromInt(r), 299), BigTimes(FromInt(g), 587)),
           BigTimes(FromInt(b), 114))
\* 1000 * 2^-40 * 2^56
Tolerance1000 == BigTimes([i \in Limbs |-> IF i = 2 THEN 2 ELSE 0], 1000)
\* The float64 y is within 2^-40 of 0.299*R + 0.587*G + 0.114*B.
NearLuminance(y, r, g, b) ==
    /\ BigLeq(BigTimes(y, 1000), BigAdd(ExactLuminance1000(r, g, b), Tolerance1000))
    /\ BigLeq(ExactLuminance1000(r, g, b), BigAdd(BigTimes(y, 1000), Tolerance1000))

\* The summary matrices have the shape of the channel matrices and hold, at
\* every position, the combination of the three channel values there.
CombinedElementwise(summary, red, green, blue) ==
    /\ Len(summary) = Len(red)
    /\ \A i \in 1..Len(summary) :
          /\ Len(summary[i]) = Len(red[i])
          /\ \A t \in 1..Len(summary[i]) :
                /\ Len(summary[i][t]) = Len(red[i][t])
                /\ \A c \in 1..Len(summary[i][t]) :
                      NearLuminance(summary[i][t][c], red[i][t][c], green[i][t][c], blue[i][t][c])

\* Where the three channels hold the same value v, the summary is exactly v.
UniformGivesExactly(summary, red, green, blue, values) ==
    \A i \in 1..Len(summary) : \A t \in 1..Len(summary[i]) : \A c \in 1..Len(summary[i][t]) :
       (/\ red[i][t][c] \in values
        /\ red[i][t][c] = green[i][t][c] /\ green[i][t][c] = blue[i][t][c]) =>
          summary[i][t][c] = FromInt(red[i][t][c])

\* The channel matrices the script combines: the padded ones, cut to the
\* rows of the summary.
ScriptTrimmed(ch) ==
    [i \in 1..NumRows |-> FirstK(script.padded[ch].rows[i], Len(script.summary[i]))]

UniformExamples ==
    /\ Luminance(<<<<100>>>>, <<<<100>>>>, <<<<100>>>>) = <<<<FromInt(100)>>>>
    /\ Luminance(<<<<0>>>>, <<<<0>>>>, <<<<0>>>>) = <<<<BigZero>>>>

\* C14 as the specification states it: the summary is 0.299*R + 0.587*G +
\* 0.114*B element by element, of the shape of the inputs, and R = G = B = v
\* gives exactly v, for every v.
C14_UniformGivesExactlyV ==
    /\ UniformExamples
    /\ sensor.status = "ok" =>
          /\ CombinedElementwise(sensor.summary_data, sensor.red_data,
                                 sensor.green_data, sensor.blue_data)
          /\ UniformGivesExactly(sensor.summary_data, sensor.red_data,
                                 sensor.green_data, sensor.blue_data, 0..2047)
    /\ script.pc = "plotted" =>
          /\ CombinedElementwise(script.summary, ScriptTrimmed("red"),
                                 ScriptTrimmed("green"), ScriptTrimmed("blue"))
          /\ UniformGivesExactly(script.summary, ScriptTrimmed("red"),
                                 ScriptTrimmed("green"), ScriptTrimmed("blue"), 0..2047)

\* C14, amended: the summary is the float64 value of 0.299*R + 0.587*G +
\* 0.114*B element by element (within 2^-40 of the exact sum for samples
\* below 2048), of the shape of the inputs; R = G = B = v gives v up to that
\* rounding, and exactly v for v = 100 and v = 0.
C14_CombinerUpToRounding ==
    /\ UniformExamples
    /\ sensor.status = "ok" =>
          /\ CombinedElementwise(sensor.summary_data, sensor.red_data,
                                 sensor.green_data, sensor.blue_data)
          /\ UniformGivesExactly(sensor.summary_data, sensor.red_data,
                                 sensor.green_data, sensor.blue_data, {0, 100})
    /\ script.pc = "plotted" =>
          /\ CombinedElementwise(script.summary, ScriptTrimmed("red"),
                                 ScriptTrimmed("green"), ScriptTrimmed("blue"))
          /\ UniformGivesExactly(script.summary, ScriptTrimmed("red"),
                                 ScriptTrimmed("green"), ScriptTrimmed("blue"), {0, 100})

\* C14 happens: three channels at 104 everywhere, and a summary that is not
\* 104 but the float64 just below it.
C14_RoundedBelowUniform ==
    /\ sensor.status = "ok"
    /\ sensor.red_data[1][1][1] = 104
    /\ sensor.green_data[1][1][1] = 104 /\ sensor.blue_data[1][1][1] = 104
    /\ sensor.summary_data[1][1][1] # FromInt(104)
    /\ BigLeq(sensor.summary_data[1][1][1], FromInt(104))

\* The timestamps of a channel file, and the time vector the extension
\* starts from: that of the first longest channel.
FileTimes(ch) == [t \in 1..NativeLen(ch) |-> files[ch].rows[t][1]]
BaseChannel ==
    CHOOSE k \in 1..3 :
       /\ NativeLen(ChannelOrder[k]) = LongestNative
       /\ \A j \in 1..(k - 1) : NativeLen(ChannelOrder[j]) < LongestNative
BaseTimes == FileTimes(ChannelOrder[BaseChannel])
PositiveDeltas ==
    SelectSeq([k \in 1..(Len(BaseTimes) - 1) |-> BaseTimes[k + 1] - BaseTimes[k]],
              LAMBDA d : d > 0)
MeanOfLast(deltas, n) ==
    LET first == IF Len(deltas) > n THEN Len(deltas) - n + 1 ELSE 1
    IN  Rat(SumSeq(SubSeq(deltas, first, Len(deltas))), Len(deltas) - first + 1)

\* A time vector of steps 7, 7, then 99 steps of 1, then a step of 0: its
\* last 100 positive steps are one 7 and the 99 ones.
WindowTimes ==
    [k \in 1..(AvgWindow + 3) |->
        IF k <= 3 THEN 7 * (k - 1)
        ELSE IF k <= AvgWindow + 2 THEN 14 + (k - 3) ELSE 14 + (AvgWindow - 1)]
WindowExample ==
    /\ AvgStep(WindowTimes) = [step |-> Rat(7 + (AvgWindow - 1), AvgWindow), default |-> FALSE]
    /\ AvgStep(<<0, 0, 0>>) = [step |-> Rat(1, 10), default |-> TRUE]

\* C15 as the specification states it: a time vector that is extended from
\* a base with fewer than 2 positive deltas grows by the default step 0.1,
\* and otherwise by the average of the last 100 deltas.
C15_DefaultBelowTwoDeltas ==
    (sensor.status = "ok" /\ sensor.extended) =>
        IF Len(PositiveDeltas) < 2
        THEN sensor.avg_step = Rat(1, 10)
        ELSE sensor.avg_step = MeanOfLast(PositiveDeltas, AvgWindow)

\* C15, amended: a time vector is extended from a base of at least 2
\* points; the step is the default 0.1 when the base has no positive delta,
\* and the average of its last 100 positive deltas when it has at least one;
\* the step is positive, so nothing is divided by zero.  A dataset none of
\* whose time vectors has 2 points is refused with ValueError.
C15_DefaultWithoutPositiveDelta ==
    /\ WindowExample
    /\ (sensor.status = "ok" /\ sensor.extended) =>
          /\ Len(BaseTimes) >= 2
          /\ sensor.default = (PositiveDeltas = <<>>)
          /\ IF PositiveDeltas = <<>>
             THEN sensor.avg_step = Rat(1, 10)
             ELSE sensor.avg_step = MeanOfLast(PositiveDeltas, AvgWindow)
          /\ RLess(RInt(0), sensor.avg_step)
    /\ (MissingChannels = {} /\ LongestNative < 2 /\ sensor.status # "none") =>
          sensor.status = "ValueError"

\* C15 happens: a time vector extended from a base with exactly one positive
\* delta, by that delta.
C15_OnePositiveDelta ==
    /\ sensor.status = "ok"
    /\ sensor.extended
    /\ Len(PositiveDeltas) = 1
    /\ sensor.avg_step = Rat(PositiveDeltas[1], 1)
    /\ ~sensor.default

\* C17: the analyzer holds the time vector and the signal matrices it was
\* constructed with, those of the SensorData object, and no press, motion,
\* release, row change, sensor change or extraction changes a value of them.
C17_DatasetsReadOnly ==
    /\ [](view = "analyzer" =>
             /\ sensor.status = "ok"
             /\ time = sensor.time_vector
             /\ all_signals = sensor.summary_data)
    /\ [][(view = "analyzer" /\ view' = "analyzer") =>
             /\ time' = time
             /\ all_signals' = all_signals
             /\ sensor' = sensor]_vars

\* C17 happens: a gesture was made and released, its window extracted, and
\* another row and another sensor are selected.
C17_AfterEveryKindOfEvent ==
    /\ view = "analyzer"
    /\ extracted.files # <<>>
    /\ start_point_data # None
    /\ ~is_dragging
    /\ selected_row_idx # 0
    /\ selected_sensor_idx # 0

\* A motion or a release in the axes during a drag.
DragStep ==
    /\ is_dragging
    /\ \E x \in ClickPoints(config) : OnMotion(TRUE, x) \/ OnRelease(TRUE, x)

\* C18: whenever a motion or a release is processed as part of a drag, or an
\* extraction gets past its guard, the start point of the window is set and
\* is the sample point chosen by the most recent press in the axes.
C18_StartPointOfThisGesture ==
    [][(DragStep \/ (~NoWindow /\ ExtractAndSaveAllData)) =>
          /\ start_point_data # None
          /\ start_point_data = press_point]_vars

\* C19: when the number of cycles is not a multiple of the number of
\* concentrations, an extraction that gets past its guard raises nothing,
\* and every cycle the window contains (and the dataset has samples of) is
\* written under a label of the concentrations list.
C19_UnevenExtractionCompletes ==
    [][(/\ CycleCount(config) % Len(config.concentrations) # 0
        /\ ~NoWindow
        /\ ExtractAndSaveAllData) =>
          /\ raised' = ""
          /\ \A k \in 0..(CycleCount(config) - 1) :
                (Contained(k) /\ HasSamples(k)) =>
                   \E call \in saved' :
                      /\ call.cycle_idx = k
                      /\ \E c \in 1..Len(config.concentrations) :
                            call.concentration = config.concentrations[c]]_vars

\* The x of a marker or of a start point is a timestamp of the time vector.
Timestamp(x) == \E i \in 1..Len(time) : time[i] = x

\* C20: no search over the time vector leads to a read at an index >=
\* len(time): no handler raises IndexError, the start point and the markers
\* of press and motion sit on timestamps (an end index past the end is
\* clamped to the last one), and the end index of every cycle the window
\* contains is below len(time).
C20_ReadsWithinTimeVector ==
    /\ raised # "IndexError"
    /\ view = "analyzer" =>
          /\ start_point_data # None => Timestamp(start_point_data[1])
          /\ \A e \in 1..Len(analysis_elements) :
                /\ Timestamp(analysis_elements[e].x)
                /\ Timestamp(analysis_elements[e].x2)
          /\ ~NoWindow =>
                \A k \in 0..(CycleCount(config) - 1) :
                   Contained(k) =>
                      /\ SearchSorted(time, RInt(CycleStart(config, k))) < Len(time)
                      /\ SearchSorted(time, RInt(CycleEnd(config, k))) < Len(time)

\* C20 happens: a motion beyond the last timestamp drew the end of the window
\* on the last timestamp, where no other point of the axes leads, and the
\* window, which holds every cycle, was extracted.
C20_EndClampedToLastTimestamp ==
    /\ view = "analyzer"
    /\ ~NoWindow
    /\ UserEndTime = time[Len(time)]
    /\ SearchSorted(time, RInt(RequiredEndTime)) < Len(time) - 1
    /\ \A k \in 0..(CycleCount(config) - 1) : Contained(k)
    /\ Says("SUCCESS")

\* The synthesized timestamps: those of the time vector after the base.
Synthesized == SubSeq(sensor.time_vector, Len(BaseTimes) + 1, Len(sensor.time_vector))
LastReal == RInt(BaseTimes[Len(BaseTimes)])
\* The step is positive and synthesized timestamp k is k steps after the
\* last real one.
EvenlySynthesized ==
    /\ RLess(RInt(0), sensor.avg_step)
    /\ Synthesized # <<>>
    /\ \A k \in 1..Len(Synthesized) :
          Synthesized[k] = RAdd(RMulInt(k, sensor.avg_step), LastReal)
    /\ \A k \in 1..(Len(Synthesized) - 1) : RLess(Synthesized[k], Synthesized[k + 1])

\* C21 as the specification states it: an extension is by a positive step,
\* from one step after the last real timestamp, and only its final
\* timestamp is >= required_end_time.
C21_OnlyFinalReachesTarget ==
    (sensor.status = "ok" /\ sensor.extended) =>
        /\ EvenlySynthesized
        /\ RLeq(RInt(RequiredEndTime), Synthesized[Len(Synthesized)])
        /\ \A k \in 1..(Len(Synthesized) - 1) :
              RLess(Synthesized[k], RInt(RequiredEndTime))

\* C21, amended: an extension is by a positive step, from one step after
\* the last real timestamp, and goes one step beyond the first timestamp
\* that reaches required_end_time: the timestamp before the final one is
\* >= required_end_time, and those before it are below.
C21_OneStepPastTarget ==
    (sensor.status = "ok" /\ sensor.extended) =>
        /\ EvenlySynthesized
        /\ Len(Synthesized) >= 2
        /\ RLeq(RInt(RequiredEndTime), Synthesized[Len(Synthesized) - 1])
        /\ RLess(RInt(RequiredEndTime), Synthesized[Len(Synthesized)])
        /\ \A k \in 1..(Len(Synthesized) - 2) :
              RLess(Synthesized[k], RInt(RequiredEndTime))

\* C21 happens: an extension of several steps, by a step other than 1, whose
\* last two timestamps have both reached the target.
C21_ExtendedPastTarget ==
    /\ sensor.status = "ok"
    /\ sensor.extended
    /\ sensor.avg_step # RInt(1)
    /\ Len(Synthesized) >= 3
    /\ RLeq(RInt(RequiredEndTime), Synthesized[Len(Synthesized) - 1])
    /\ RLess(Synthesized[Len(Synthesized) - 2], RInt(RequiredEndTime))

\* C22: main() gets to the gas selector: the construction of AppController,
\* LOGGER.start() and launch_gas_selector() raise nothing, and when main()
\* has ended stdout is the stream it was before.
C22_StartupReachesGasSelector ==
    /\ main.pc = "mainloop" =>
          raised = "" /\ view = "gas_selector" /\ main.stdout = "LOGGER"
    /\ main.pc = "exited" => raised = "" /\ main.stdout = "console"

====
